---- MODULE Spec2Model ----
(***************************************************************************)
(* The command endpoint of the JARIS server (POST /api/command/execute),   *)
(* its ALLOWED_COMMANDS catalog and handlers, and the UI callers that send *)
(* text to it or to the AI chat.                                           *)
(*                                                                         *)
(* A text is a sequence of atoms.  An atom stands for a fixed run of       *)
(* characters: a catalog verb ("create folder"), a word ("MyProject"), or  *)
(* one whitespace character (" ", "\n").  No atom is a substring of a      *)
(* neighbouring atom's characters, so matching a regular expression atom   *)
(* by atom gives the result the character-level match gives.               *)
(*                                                                         *)
(* Spec is the server with the UI as its only client, SpecDet adds the     *)
(* memory of an earlier request, SpecClients adds a second HTTP client     *)
(* whose request is in flight at the same time, and SpecRenderer is the    *)
(* Electron renderer with its WebSocket.  SpecMain is the Electron main    *)
(* process with the Python processes it spawns and the screen reader,      *)
(* SpecVoice the microphone button and the voice controller, SpecNotifier  *)
(* the notification manager, and SpecChat the loading flag of the chat     *)
(* screen and the endpoint POST /api/ai/chat.  SpecMainLive and            *)
(* SpecNotifierLive add the fairness of timers and animation frames.       *)
(***************************************************************************)
EXTENDS Integers, Sequences, FiniteSets, TLC

\* ------------------------------------------------------------------ bounds
MaxTail == 2
MaxCreated == 1
MaxTurns == 2
MaxStarts == 4
MaxToggles == 3
MaxNotes == 3
MaxInFlight == 3

\* ------------------------------------------------------------------- state
VARIABLES
    currentMode,    \* the mode the UI shows: "ai" or "pc_control"
    cwd,            \* process.cwd() of the server
    dirs,           \* the directories that exist
    files,          \* the files that exist
    catalog,        \* the keys of ALLOWED_COMMANDS, in the order of its entries
    req,            \* the request of the UI in flight or answered last
    peer,           \* the request of another HTTP client of the server
    messages,       \* the messages state of the mounted chat screen
    socket,         \* the renderer's WebSocket and its reconnection state
    reportedMode,   \* the mode of the last set_operation_mode message sent
    memo,           \* an earlier answered request, kept for comparison
    backend,        \* the Python processes the Electron main process spawned
    reader,         \* the screen reader flags of the main process
    voice,          \* isListening of the renderer and the VoiceController
    notifier,       \* the NotificationManager and the notifications on screen
    chat            \* the loading flag of the chat screen and /api/ai/chat

\* the state of the components beside the command endpoint and its callers
sideVars == <<backend, reader, voice, notifier, chat>>

vars == <<currentMode, cwd, dirs, files, catalog, req, peer, messages, socket,
          reportedMode, memo, backend, reader, voice, notifier, chat>>

\* ------------------------------------------------------------------- atoms
\* \s of the regular expressions, also what String.prototype.trim removes
WhiteSpace == {" ", "\n"}

\* characters the regular expression dot does not match
LineTerminators == {"\n"}

\* toLowerCase / the i flag, per atom
Lower(a) ==
    CASE a = "OPEN" -> "open"
      [] a = "MyProject" -> "myproject"
      [] a = "JavaScript" -> "javascript"
      [] a = "Flask" -> "flask"
      [] a = "API" -> "api"
      [] a = "React" -> "react"
      [] OTHER -> a

LowerSeq(s) == [i \in 1..Len(s) |-> Lower(s[i])]

SetMin(S) == CHOOSE x \in S : \A y \in S : x <= y
SetMax(S) == CHOOSE x \in S : \A y \in S : x >= y

\* String.prototype.trim
Trim(s) ==
    LET idx == {i \in 1..Len(s) : s[i] \notin WhiteSpace}
    IN IF idx = {} THEN <<>> ELSE SubSeq(s, SetMin(idx), SetMax(idx))

\* ------------------------------------------------------------------ inputs
\* Object.entries(ALLOWED_COMMANDS): the keys in declaration order
CommandNames == <<"create folder", "create file", "list files", "execute", "navigate", "open">>

VerbAtoms == {"create folder", "create file", "write", "list files", "execute", "navigate", "open"}

TailAlphabet == {" ", "MyProject"}

Tails == UNION {[1..k -> TailAlphabet] : k \in 0..MaxTail}

\* the examples of the PC Control screen
AdvertisedExamples ==
    { <<"create folder", " ", "MyProject">>,
      <<"create file", " ", "app.py", " ", "with", " ", "a", " ", "Flask", " ", "hello", " ", "world">>,
      <<"write", " ", "JavaScript", " ", "code", " ", "to", " ", "fetch", " ", "data", " ", "from", " ", "an", " ", "API">>,
      <<"explain", " ", "how", " ", "React", " ", "hooks", " ", "work">> }

Corpus ==
    AdvertisedExamples \cup
    { <<"open", " ", "chrome">>,
      <<"take a screenshot">>,
      <<"what's the weather like?">>,
      <<"execute", " ", "ls", " ", "-la">>,
      <<" ", "open", " ", "docs">>,
      <<"OPEN", " ", "docs">>,
      <<"open", " ", " ", "docs", " ">>,
      <<"open", " ", "docs", "\n", "docs">>,
      <<"open", " ", "\n", " ">>,
      <<"please", " ", "list files">>,
      <<"list files", " ", "in", " ", "docs">>,
      <<"list files", " ", "in", " ", "MyProject">>,
      <<"navigate", " ", "docs">>,
      <<"create file", " ", "MyProject", " ", "docs">>,
      <<" ">>,
      <<" ", " ">> }

\* the texts typed into the PC Control screen; the chat screen and the speech
\* recogniser, which do not look into the text, get those of Corpus
Texts == {<<v>> \o t : v \in VerbAtoms, t \in Tails} \cup Corpus

\* the texts of the determinism check
DetTexts ==
    { <<"create folder", " ", "MyProject">>,
      <<"create file", " ", "MyProject">>,
      <<"list files">>,
      <<"list files", " ", "in", " ", "docs">>,
      <<"execute", " ", "ls", " ", "-la">>,
      <<"navigate", " ", "docs">>,
      <<"navigate", " ", "..">>,
      <<"open", " ", "docs">>,
      <<"open", " ", " ">>,
      <<"what's the weather like?">> }

\* the texts typed into the chat screen
ChatTexts ==
    { <<"open", " ", "chrome">>,
      <<"what's the weather like?">> }

DetChatTexts == { <<"what's the weather like?">> }

\* the texts of the two clients of the concurrency check
ClientTexts ==
    { <<"create folder", " ", "MyProject">>,
      <<"navigate", " ", "docs">>,
      <<"list files">>,
      <<"what's the weather like?">> }

\* the command of the body another client posts: any text, or none
PeerBodies == ClientTexts \cup { <<>>, <<" ">> }

\* --------------------------------------------------- the catalog's patterns
\* the result of String.prototype.match: ok is "match is not null", g1 and g2
\* are match[1] and match[2] (an unset group reads as the empty text)
NoMatch == [ok |-> FALSE, g1 |-> <<>>, g2 |-> <<>>]

\* last index of the run of whitespace that starts at i (i - 1 when empty)
WsEnd(text, i) ==
    LET stop == {m \in i..Len(text) : text[m] \notin WhiteSpace}
    IN IF stop = {} THEN Len(text) ELSE SetMin(stop) - 1

\* last index of the run of non-whitespace that starts at i
NonWsEnd(text, i) ==
    LET stop == {m \in i..Len(text) : text[m] \in WhiteSpace}
    IN IF stop = {} THEN Len(text) ELSE SetMin(stop) - 1

\* last index of the run the dot matches that starts at i
DotEnd(text, i) ==
    LET stop == {m \in i..Len(text) : text[m] \in LineTerminators}
    IN IF stop = {} THEN Len(text) ELSE SetMin(stop) - 1

\* /^<lit>\s+(.+)$/i : \s+ is greedy and gives characters back until (.+)$
\* can match, so the group starts after the longest whitespace run that
\* leaves a non-empty rest without line terminator
MatchVerbSlot(lit, text) ==
    LET n == Len(text)
        ks == {k \in 1..(n - 2) :
                 /\ \A i \in 2..(k + 1) : text[i] \in WhiteSpace
                 /\ \A i \in (k + 2)..n : text[i] \notin LineTerminators}
    IN IF n = 0 THEN NoMatch
       ELSE IF Lower(text[1]) = lit /\ ks # {}
            THEN [ok |-> TRUE, g1 |-> SubSeq(text, SetMax(ks) + 2, n), g2 |-> <<>>]
            ELSE NoMatch

\* /^(?:create file|write)\s+([^\s]+)(?:\s+with\s+)?(.*)?/i
MatchCreateFile(text) ==
    LET n == Len(text)
        j == WsEnd(text, 2) + 1
        e == NonWsEnd(text, j)
        w == WsEnd(text, e + 1) + 1
        x == WsEnd(text, w + 1) + 1
        withGroup == /\ w > e + 1
                     /\ w <= n
                     /\ Lower(text[w]) = "with"
                     /\ x > w + 1
        p == IF withGroup THEN x ELSE e + 1
    IN IF n = 0 THEN NoMatch
       ELSE IF Lower(text[1]) \in {"create file", "write"} /\ j >= 3 /\ j <= n
            THEN [ok |-> TRUE, g1 |-> SubSeq(text, j, e), g2 |-> SubSeq(text, p, DotEnd(text, p))]
            ELSE NoMatch

\* /^list files(?: in )?(.*)?$/i
MatchListFiles(text) ==
    LET n == Len(text)
        inGroup == IF n >= 4
                   THEN text[2] = " " /\ Lower(text[3]) = "in" /\ text[4] = " "
                   ELSE FALSE
        p == IF inGroup THEN 5 ELSE 2
    IN IF n = 0 THEN NoMatch
       ELSE IF Lower(text[1]) = "list files" /\ DotEnd(text, 2) = n
            THEN [ok |-> TRUE, g1 |-> SubSeq(text, p, n), g2 |-> <<>>]
            ELSE NoMatch

\* command.match(pattern) for the pattern of the entry called name
PatternMatch(name, text) ==
    CASE name = "create folder" -> MatchVerbSlot("create folder", text)
      [] name = "create file" -> MatchCreateFile(text)
      [] name = "list files" -> MatchListFiles(text)
      [] name = "execute" -> MatchVerbSlot("execute", text)
      [] name = "navigate" -> MatchVerbSlot("navigate", text)
      [] name = "open" -> MatchVerbSlot("open", text)
      [] OTHER -> NoMatch

\* the loop with a default entry: text no pattern matches runs the last entry
RECURSIVE ScanFromDefault(_, _)
ScanFromDefault(text, i) ==
    IF i > Len(catalog) THEN catalog[Len(catalog)]
    ELSE IF PatternMatch(catalog[i], text).ok THEN catalog[i]
         ELSE ScanFromDefault(text, i + 1)

\* the for loop over Object.entries(ALLOWED_COMMANDS): the first entry whose
\* pattern matches, where the loop breaks, or "none" when it runs to the end
RECURSIVE ScanFrom(_, _)
ScanFrom(text, i) ==
    IF i > Len(catalog) THEN "none"
    ELSE IF PatternMatch(catalog[i], text).ok THEN catalog[i]
         ELSE ScanFrom(text, i + 1)

\* the loop started at the second entry
FirstMatchSkipping(text) == ScanFrom(text, 2)

FirstMatch(text) == ScanFrom(text, 1)

\* the flag never set
MatchedNever(name) == FALSE

\* let matched = false ... matched = true
MatchedFlag(name) == name # "none"

\* 'list files' without a directory takes the name of the current directory
SlotValueCwd(name, m) ==
    CASE name = "list files" ->
              IF Trim(m.g1) = <<>> /\ cwd # <<>> THEN cwd[Len(cwd)] ELSE Trim(m.g1)
      [] name = "open" -> Trim(LowerSeq(m.g1))
      [] name \in {"create folder", "create file", "execute", "navigate"} -> Trim(m.g1)
      [] OTHER -> <<>>

\* the value each handler takes from its match before it acts
SlotValue(name, m) ==
    CASE name = "create folder" -> Trim(m.g1)
      [] name = "create file" -> Trim(m.g1)
      [] name = "list files" -> Trim(m.g1)
      [] name = "execute" -> Trim(m.g1)
      [] name = "navigate" -> Trim(m.g1)
      [] name = "open" -> Trim(LowerSeq(m.g1))
      [] OTHER -> <<>>

\* content of 'create file': match[2]?.trim() || ''
ContentValue(name, m) == IF name = "create file" THEN Trim(m.g2) ELSE <<>>

\* -------------------------------------------------------------- file system
\* a path is the sequence of its names from the root, a name is a text
StartDir == <<<<"srv">>>>

InitDirs == {<<>>, StartDir, Append(StartDir, <<"docs">>)}

ParentDir(dir) == IF dir = <<>> THEN <<>> ELSE SubSeq(dir, 1, Len(dir) - 1)

\* path.resolve(process.cwd(), name) for a name without separator
Resolve(dir, name) ==
    IF name = <<>> THEN dir
    ELSE IF name = <<"..">> THEN ParentDir(dir)
    ELSE Append(dir, name)

\* ------------------------------------------------------------ environment
Modes == {"ai", "pc_control"}

\* what the environment decides: whether a spawned command or the AI call
\* succeeds, and process.platform
Outcomes == {"ok", "fail"}
Platforms == {"win32", "linux"}

\* const MAX_RECONNECT_ATTEMPTS = 5
MAX_RECONNECT_ATTEMPTS == 5

\* the socket once the DOMContentLoaded handler has run: setupWebSocket has
\* created it and setMode(currentMode) found it still connecting
StartSocket ==
    [state |-> "connecting", attempts |-> 0, timer |-> FALSE,
     delay |-> 0, made |-> 0, lost |-> FALSE]

\* the main process before app.whenReady: nothing is spawned.  ws and py are
\* the processes the variables websocketProcess and pythonProcess refer to
\* ("none" while undefined), wsOrphans and pyOrphans count the processes
\* still alive that no variable refers to any more, and lastExit is the code
\* the last WebSocket server ended with since the last start
StartBackend ==
    [window |-> FALSE, quit |-> FALSE,
     ws |-> "none", wsOrphans |-> 0, py |-> "none", pyOrphans |-> 0,
     crashTimers |-> 0, portTimers |-> 0, starts |-> 0, lastStartBy |-> "none",
     lastExit |-> "none"]

\* the screen reader globals of the main process and the last status reply
StartReader ==
    [active |-> FALSE, paused |-> FALSE, shell |-> "none", ending |-> FALSE,
     asked |-> FALSE, is_running |-> FALSE, is_paused |-> FALSE]

\* the renderer before initializeVoiceController: voiceController is null.
\* isListening is the renderer's flag, ctlListening the controller's, told
\* the listening value of the last toggle-listening message sent
StartVoice ==
    [controller |-> "none", ctlListening |-> FALSE, isListening |-> FALSE,
     toggles |-> 0, told |-> "none"]

\* the notifications a run can show, each with the default duration of 5000
NoteIds == 1..MaxNotes

\* the NotificationManager after its constructor.  state is "new", "queued",
\* "mounted" (in the DOM, its first frame requested), "open" or "closed";
\* frame holds the notifications with an updateProgress frame requested;
\* progressAnimationId is the notification whose frame handle the field
\* holds, 0 for null
StartNotifier ==
    [queue |-> <<>>, isProcessingQueue |-> FALSE, mounting |-> 0,
     state |-> [n \in NoteIds |-> "new"],
     frame |-> {}, elapsed |-> {}, progressAnimationId |-> 0]

\* a request to /api/ai/chat that no client has sent yet
IdlePost ==
    [phase |-> "idle", kind |-> "undefined", items |-> <<>>, status |-> 0,
     error |-> "none", llmCalls |-> 0]

\* the chat screen after mounting (isLoading false, no fetch awaited, no
\* assistant message appended) and the request of a client of /api/ai/chat
StartChat ==
    [isLoading |-> FALSE, inFlight |-> 0, appended |-> "none", post |-> IdlePost]

IdleReq ==
    [phase |-> "idle", endpoint |-> "none", mode |-> "ai", typed |-> <<>>,
     text |-> <<>>, name |-> "none", matched |-> FALSE, m |-> NoMatch,
     slot |-> <<>>, content |-> <<>>, path |-> <<>>,
     handlersRun |-> 0, aiCalls |-> 0, effect |-> "none", failed |-> "none",
     status |-> 0, success |-> FALSE, output |-> "none",
     respPath |-> <<>>, respCwd |-> <<>>, aiContent |-> <<>>,
     aiMessages |-> <<>>, llmMessages |-> <<>>]

Init ==
    /\ currentMode = "ai"
    /\ cwd = StartDir
    /\ dirs = InitDirs
    /\ files = {}
    /\ catalog = CommandNames
    /\ req = IdleReq
    /\ peer = IdleReq
    /\ messages = <<>>
    /\ socket = StartSocket
    /\ reportedMode = "none"
    /\ memo = IdleReq
    /\ backend = StartBackend
    /\ reader = StartReader
    /\ voice = StartVoice
    /\ notifier = StartNotifier
    /\ chat = StartChat

\* the entries this request would add to the file system
NewEntry(text) ==
    LET name == FirstMatch(text)
        target == Resolve(cwd, SlotValue(name, PatternMatch(name, text)))
    IN IF name \in {"create folder", "create file"} /\ target \notin (dirs \cup files)
       THEN {target} ELSE {}

WithinBounds(text) ==
    Cardinality(((dirs \cup files) \ InitDirs) \cup NewEntry(text)) <= MaxCreated

\* --------------------------------------------------------------- UI callers
\* setMode of the renderer and the tab change of the React page, taken as
\* one step: the mode is set, the screen of the other mode is unmounted and
\* its messages state is lost, and set_operation_mode is sent when the
\* socket is open (nothing is sent or queued otherwise)
SetMode(newMode) ==
    /\ currentMode' = newMode
    /\ messages' = IF newMode = currentMode THEN messages ELSE <<>>
    /\ reportedMode' = IF socket.state = "open" THEN newMode ELSE reportedMode
    /\ UNCHANGED <<cwd, dirs, files, catalog, req, peer, socket, memo, sideVars>>

\* the test accepting server-side what is not falsy
SubmittableNonEmpty(text) == text # <<>>

\* if (!command.trim()) return;
Submittable(text) == Trim(text) # <<>>

\* the body with the command trimmed
PostedTextTrimmed(text) == Trim(text)

\* JSON.stringify({ command }) and express.json(): the command arrives as
\* it was typed
PostedText(text) == text

\* executeCommand of the PC Control screen, the screen of pc_control mode:
\* text that is empty after trimming is ignored, any other text is posted
\* as typed to /api/command/execute; isExecuting allows one request at a time
ExecuteCommand(text) ==
    /\ currentMode = "pc_control"
    /\ req.phase = "idle"
    /\ Submittable(text)
    /\ WithinBounds(text)
    /\ req' = [IdleReq EXCEPT !.phase = "posted", !.endpoint = "command",
                               !.mode = currentMode, !.typed = text,
                               !.text = PostedText(text)]
    /\ UNCHANGED <<currentMode, cwd, dirs, files, catalog, peer, messages, socket, reportedMode, memo, sideVars>>

\* sendMessage of the AI chat screen, the screen of ai mode: the text is
\* appended to the messages and all of them are posted to /api/ai/chat
SendMessage(text) ==
    /\ currentMode = "ai"
    /\ req.phase = "idle"
    /\ Trim(text) # <<>>
    /\ Len(messages) < 2 * MaxTurns
    /\ LET updatedMessages == Append(messages, [role |-> "user", content |-> text])
       IN /\ messages' = updatedMessages
          /\ req' = [IdleReq EXCEPT !.phase = "ai", !.endpoint = "chat",
                                     !.mode = currentMode, !.typed = text,
                                     !.text = text, !.aiCalls = 1,
                                     !.aiContent = text,
                                     !.aiMessages = updatedMessages]
    /\ UNCHANGED <<currentMode, cwd, dirs, files, catalog, peer, socket, reportedMode, memo, sideVars>>

\* the test without the mode
SpeechIsCommandAnyMode(mode, text) == Trim(text) # <<>>

\* the test of handleSpeechRecognized before it calls sendCommand
SpeechIsCommand(mode, text) == mode = "pc_control" /\ Trim(text) # <<>>

\* handleSpeechRecognized of the renderer: the recognised text is shown in
\* the chat and, in PC control mode, passed to sendCommand, which sends it
\* to the backend as process_text
HandleSpeechRecognized(text) ==
    /\ req.phase = "idle"
    /\ text # <<>>
    /\ req' = [IdleReq EXCEPT !.phase = "done",
                               !.endpoint = IF SpeechIsCommand(currentMode, text)
                                            THEN "process_text" ELSE "shown",
                               !.mode = currentMode, !.typed = text,
                               !.text = text]
    /\ UNCHANGED <<currentMode, cwd, dirs, files, catalog, peer, messages, socket, reportedMode, memo, sideVars>>

\* the data-command attributes of the quick buttons: fixed command phrases,
\* or none (read as the empty text)
QuickCommands ==
    { <<"open", " ", "chrome">>,
      <<"take a screenshot">>,
      <<>> }

\* the click listener of a quick button and sendCommand of src/renderer.js:
\* a command that is not falsy goes over IPC to the backend's stdin; this
\* renderer has no operation mode
SendCommand(command) ==
    /\ req.phase = "idle"
    /\ command # <<>>
    /\ req' = [IdleReq EXCEPT !.phase = "done", !.endpoint = "ipc",
                               !.mode = "none", !.typed = command,
                               !.text = command]
    /\ UNCHANGED <<currentMode, cwd, dirs, files, catalog, peer, messages, socket, reportedMode, memo, sideVars>>

\* ------------------------------------------------- the renderer's WebSocket
\* socket.onopen: the attempts are reset and the handshake is sent; the
\* mode is not sent.  made counts the sockets setupWebSocket created from
\* the timeout since the last open, delay is the delay of the last timeout
\* set since then
SocketOpen ==
    /\ socket.state = "connecting"
    /\ socket' = [socket EXCEPT !.state = "open", !.attempts = 0, !.made = 0,
                                !.delay = 0]
    /\ UNCHANGED <<currentMode, cwd, dirs, files, catalog, req, peer, messages, reportedMode, memo, sideVars>>

\* the delay taken from the attempts after they were incremented
ReconnectDelayAfterIncrement(attempts) ==
    SetMin({1000 * 2^(attempts + 1), 30000})

\* const delay = Math.min(1000 * Math.pow(2, reconnectAttempts), 30000)
ReconnectDelay(attempts) == SetMin({1000 * 2^attempts, 30000})

\* the test that also passes when the attempts equal the maximum
MayReconnectInclusive(attempts) == attempts <= MAX_RECONNECT_ATTEMPTS

\* if (reconnectAttempts < MAX_RECONNECT_ATTEMPTS)
MayReconnect(attempts) == attempts < MAX_RECONNECT_ATTEMPTS

\* socket.onclose: a reconnection is scheduled after the delay while
\* attempts remain, otherwise the 'Connection lost' error is shown
SocketClose ==
    /\ socket.state \in {"connecting", "open"}
    /\ socket' = IF MayReconnect(socket.attempts)
                 THEN [socket EXCEPT !.state = "closed",
                                     !.delay = ReconnectDelay(socket.attempts),
                                     !.attempts = socket.attempts + 1,
                                     !.timer = TRUE]
                 ELSE [socket EXCEPT !.state = "closed", !.lost = TRUE]
    /\ UNCHANGED <<currentMode, cwd, dirs, files, catalog, req, peer, messages, reportedMode, memo, sideVars>>

\* the timeout of onclose fires: setupWebSocket creates a new socket
ReconnectTimer ==
    /\ socket.timer
    /\ socket' = [socket EXCEPT !.state = "connecting", !.timer = FALSE,
                                !.made = socket.made + 1]
    /\ UNCHANGED <<currentMode, cwd, dirs, files, catalog, req, peer, messages, reportedMode, memo, sideVars>>

\* ------------------------------------------- POST /api/command/execute
\* the handler call of the loop up to its first await: the handlers that
\* resolve a path against process.cwd() do so before they wait
HandlerPath(name, m) ==
    IF name \in {"create folder", "create file", "list files", "navigate"}
    THEN Resolve(cwd, SlotValue(name, m))
    ELSE <<>>

\* the request r from its arrival to the first await: the check of the
\* body, the loop over the catalog and the start of the matched handler, or
\* the start of the call to the AI when the loop ends without a match
Match(r) ==
    LET name == FirstMatch(r.text)
        m == PatternMatch(name, r.text)
    IN IF r.text = <<>>
       THEN [r EXCEPT !.phase = "done", !.status = 400, !.success = FALSE,
                      !.output = "absent"]
       ELSE IF name # "none"
       THEN [r EXCEPT !.phase = "handler", !.name = name, !.m = m,
                      !.matched = MatchedFlag(name),
                      !.slot = SlotValue(name, m),
                      !.content = ContentValue(name, m),
                      !.path = HandlerPath(name, m),
                      !.handlersRun = r.handlersRun + 1]
       ELSE [r EXCEPT !.phase = "ai", !.name = name, !.m = m,
                      !.matched = MatchedFlag(name),
                      !.aiCalls = r.aiCalls + 1,
                      !.aiContent = r.text,
                      !.aiMessages = <<[role |-> "user", content |-> r.text]>>]

ServerMatch ==
    /\ req.phase = "posted"
    /\ req.endpoint = "command"
    /\ req' = Match(req)
    /\ UNCHANGED <<currentMode, cwd, dirs, files, catalog, peer, messages, socket, reportedMode, memo, sideVars>>

\* a handler that enters the directory it lists
CwdAfterListEnter(path) == path

\* process.cwd() after fs.readdir of 'list files': it is left as it was
CwdAfterList(path) == cwd

\* what the matched handler does once its awaited call returns: ok is "it
\* returned", effect the OS action it performed
RunHandler(name, slot, path, outcome, platform) ==
    LET same == [ok |-> TRUE, effect |-> "none", dirs |-> dirs, files |-> files,
                 cwd |-> cwd, output |-> "none", respPath |-> <<>>]
        thrown == [same EXCEPT !.ok = FALSE, !.output = "error"]
    IN CASE name = "create folder" ->
              IF path \in files THEN thrown
              ELSE [same EXCEPT !.effect = "mkdir", !.dirs = dirs \cup {path},
                                !.output = "created_folder", !.respPath = path]
         [] name = "create file" ->
              IF path \in dirs THEN thrown
              ELSE [same EXCEPT !.effect = "writeFile", !.files = files \cup {path},
                                !.output = "created_file", !.respPath = path]
         [] name = "list files" ->
              IF path \notin dirs THEN thrown
              ELSE [same EXCEPT !.effect = "readdir", !.cwd = CwdAfterList(path),
                                !.output = "contents"]
         [] name = "execute" ->
              IF slot = <<>> THEN thrown
              ELSE IF outcome = "fail" THEN [thrown EXCEPT !.effect = "exec"]
              ELSE [same EXCEPT !.effect = "exec", !.output = "executed"]
         [] name = "navigate" ->
              IF path \notin dirs THEN thrown
              ELSE [same EXCEPT !.effect = "chdir", !.cwd = path,
                                !.output = "changed_directory", !.respPath = path]
         [] name = "open" ->
              IF slot = <<>> /\ platform # "win32" THEN thrown
              ELSE IF outcome = "fail" THEN [thrown EXCEPT !.effect = "exec"]
              ELSE [same EXCEPT !.effect = "exec",
                                !.output = IF slot # <<>> /\ Resolve(cwd, slot) \in (dirs \cup files)
                                           THEN "opened" ELSE "executed"]
         [] OTHER -> thrown

\* a handler that removes its own entry once it has run
CatalogAfterDrop(name, c) == SelectSeq(c, LAMBDA n : n # name)

\* ALLOWED_COMMANDS after the handler of the entry called name has run: no
\* handler assigns to it, to one of its entries or to a pattern
CatalogAfter(name, c) == c

\* the response to r once its handler has returned h: the success response,
\* that of the catch block when the handler threw, or the start of the call
\* to the AI when matched is still false
Respond(r, h) ==
    IF ~h.ok
    THEN [r EXCEPT !.phase = "done", !.status = 500, !.success = FALSE,
                   !.failed = "handler", !.effect = h.effect,
                   !.output = "error", !.respCwd = h.cwd]
    ELSE IF r.matched
    THEN [r EXCEPT !.phase = "done", !.status = 200, !.success = TRUE,
                   !.effect = h.effect, !.output = h.output,
                   !.respPath = h.respPath, !.respCwd = h.cwd]
    ELSE [r EXCEPT !.phase = "ai", !.effect = h.effect,
                   !.output = h.output, !.respPath = h.respPath,
                   !.aiCalls = r.aiCalls + 1,
                   !.aiContent = r.text,
                   !.aiMessages = <<[role |-> "user", content |-> r.text]>>]

\* the rest of the matched handler and what follows it
HandlerDone ==
    /\ req.phase = "handler"
    /\ \E outcome \in Outcomes, platform \in Platforms :
         LET h == RunHandler(req.name, req.slot, req.path, outcome, platform)
         IN /\ dirs' = h.dirs
            /\ files' = h.files
            /\ cwd' = h.cwd
            /\ req' = Respond(req, h)
    /\ catalog' = CatalogAfter(req.name, catalog)
    /\ UNCHANGED <<currentMode, peer, messages, socket, reportedMode, memo, sideVars>>

\* formattedMessages of /api/ai/chat: the system message, then the messages
\* of the request in their order
FormattedMessages(msgs) ==
    <<[role |-> "system", content |-> <<"You are JARIS">>]>> \o msgs

\* the answer of /api/ai/chat to r: it sends the formatted messages to the
\* LLM server and answers with the reply or with status 500; the command
\* endpoint turns the latter into its own error response
AiAnswer(r, outcome) ==
    IF outcome = "ok"
    THEN [r EXCEPT !.phase = "done", !.status = 200, !.success = TRUE,
                   !.output = "ai", !.respCwd = cwd,
                   !.llmMessages = FormattedMessages(r.aiMessages)]
    ELSE [r EXCEPT !.phase = "done", !.status = 500, !.success = FALSE,
                   !.failed = "ai", !.output = "error", !.respCwd = cwd,
                   !.llmMessages = FormattedMessages(r.aiMessages)]

\* the assistant message sendMessage appends: the reply or the error text
AssistantMessage(outcome) ==
    [role |-> "assistant",
     content |-> IF outcome = "ok" THEN <<"reply">> ELSE <<"I encountered an error">>]

\* the answer of the AI chat: of the fetch of the command endpoint when no
\* entry matched, or of the chat screen's own request, which appends the
\* assistant's message while the screen is still mounted
AiDone ==
    /\ req.phase = "ai"
    /\ \E outcome \in Outcomes :
         /\ req' = AiAnswer(req, outcome)
         /\ messages' = IF req.endpoint = "chat" /\ messages # <<>>
                        THEN Append(messages, AssistantMessage(outcome))
                        ELSE messages
    /\ UNCHANGED <<currentMode, cwd, dirs, files, catalog, peer, socket, reportedMode, memo, sideVars>>

\* the caller has its answer and accepts the next text: the finally block of
\* executeCommand and of sendMessage
RequestSettled ==
    /\ req.phase = "done"
    /\ req' = IdleReq
    /\ UNCHANGED <<currentMode, cwd, dirs, files, catalog, peer, messages, socket, reportedMode, memo, sideVars>>

\* ------------------------------------------------ another client of the server
\* app.use(cors()) admits every origin: a second client posts a body to
\* /api/command/execute while the request of the UI is in flight; an empty
\* body text stands for a body without command
PeerPost(text) ==
    /\ peer.phase = "idle"
    /\ WithinBounds(text)
    /\ peer' = [IdleReq EXCEPT !.phase = "posted", !.endpoint = "command",
                                !.mode = "none", !.typed = text, !.text = text]
    /\ UNCHANGED <<currentMode, cwd, dirs, files, catalog, req, messages, socket, reportedMode, memo, sideVars>>

PeerMatch ==
    /\ peer.phase = "posted"
    /\ peer' = Match(peer)
    /\ UNCHANGED <<currentMode, cwd, dirs, files, catalog, req, messages, socket, reportedMode, memo, sideVars>>

PeerHandlerDone ==
    /\ peer.phase = "handler"
    /\ \E outcome \in Outcomes, platform \in Platforms :
         LET h == RunHandler(peer.name, peer.slot, peer.path, outcome, platform)
         IN /\ dirs' = h.dirs
            /\ files' = h.files
            /\ cwd' = h.cwd
            /\ peer' = Respond(peer, h)
    /\ catalog' = CatalogAfter(peer.name, catalog)
    /\ UNCHANGED <<currentMode, req, messages, socket, reportedMode, memo, sideVars>>

PeerAiDone ==
    /\ peer.phase = "ai"
    /\ \E outcome \in Outcomes : peer' = AiAnswer(peer, outcome)
    /\ UNCHANGED <<currentMode, cwd, dirs, files, catalog, req, messages, socket, reportedMode, memo, sideVars>>

PeerSettled ==
    /\ peer.phase = "done"
    /\ peer' = IdleReq
    /\ UNCHANGED <<currentMode, cwd, dirs, files, catalog, req, messages, socket, reportedMode, memo, sideVars>>

\* ------------------------------------------- the Electron main process
\* process.platform of the main process
MainPlatforms == {"darwin", "linux"}

\* the exit codes of a child process: 0, an error code, or null when a
\* signal ended it
ExitCodes == {"0", "1", "null"}

\* a close handler that restarts only what a signal ended
ShouldRestartOnSignal(code) == code = "null"

\* if (code !== 0) of websocketProcess.on('close')
ShouldRestart(code) == code # "0"

\* the processes alive that the app spawned
WsAlive(b) == b.wsOrphans + (IF b.ws = "alive" THEN 1 ELSE 0)
PyAlive(b) == b.pyOrphans + (IF b.py = "alive" THEN 1 ELSE 0)

\* the starts made and those the pending timers can still lead to: a port
\* timer kills the server, whose close handler then sets a crash timer
StartsAhead(b) == b.starts + b.crashTimers + 2 * b.portTimers

\* the close handler of a WebSocket server process that ended with code
OnWsClose(b, code) ==
    IF ShouldRestart(code) /\ ~b.quit
    THEN [b EXCEPT !.crashTimers = b.crashTimers + 1, !.lastExit = code]
    ELSE [b EXCEPT !.lastExit = code]

\* websocketProcess.kill(): SIGTERM ends the process the variable refers to
\* when it is alive, and its close handler runs with code null
KillWs(b) ==
    IF b.ws = "alive" THEN OnWsClose([b EXCEPT !.ws = "exited"], "null") ELSE b

\* pythonProcess.kill(); its close handler only logs
KillPy(b) == IF b.py = "alive" THEN [b EXCEPT !.py = "exited"] ELSE b

\* startPythonBackend: both processes are spawned and assigned to the two
\* variables; the processes the variables referred to are not ended
StartPythonBackend(b, by) ==
    [b EXCEPT !.ws = "alive", !.py = "alive",
              !.wsOrphans = b.wsOrphans + (IF b.ws = "alive" THEN 1 ELSE 0),
              !.pyOrphans = b.pyOrphans + (IF b.py = "alive" THEN 1 ELSE 0),
              !.starts = b.starts + 1, !.lastStartBy = by,
              !.lastExit = "none"]

\* createWindow, from app.whenReady and from 'activate' when no window is open
CreateWindow ==
    /\ ~backend.window
    /\ ~backend.quit
    /\ StartsAhead(backend) < MaxStarts
    /\ backend' = StartPythonBackend([backend EXCEPT !.window = TRUE], "launch")
    /\ UNCHANGED <<currentMode, cwd, dirs, files, catalog, req, peer, messages,
                   socket, reportedMode, memo, reader, voice, notifier, chat>>

\* the WebSocket server the variable refers to exits by itself
WsExit(code) ==
    /\ backend.ws = "alive"
    /\ code # "0" => StartsAhead(backend) < MaxStarts
    /\ backend' = OnWsClose([backend EXCEPT !.ws = "exited"], code)
    /\ UNCHANGED <<currentMode, cwd, dirs, files, catalog, req, peer, messages,
                   socket, reportedMode, memo, reader, voice, notifier, chat>>

\* a WebSocket server no variable refers to exits; its handlers are still
\* registered
WsOrphanExit(code) ==
    /\ backend.wsOrphans > 0
    /\ code # "0" => StartsAhead(backend) < MaxStarts
    /\ backend' = OnWsClose([backend EXCEPT !.wsOrphans = backend.wsOrphans - 1],
                            code)
    /\ UNCHANGED <<currentMode, cwd, dirs, files, catalog, req, peer, messages,
                   socket, reportedMode, memo, reader, voice, notifier, chat>>

\* a WebSocket server writes 'Address already in use' to stderr: the stderr
\* handler sets the timeout of the restart
WsAddressInUse ==
    /\ WsAlive(backend) > 0
    /\ ~backend.quit
    /\ StartsAhead(backend) + 2 <= MaxStarts
    /\ backend' = [backend EXCEPT !.portTimers = backend.portTimers + 1]
    /\ UNCHANGED <<currentMode, cwd, dirs, files, catalog, req, peer, messages,
                   socket, reportedMode, memo, reader, voice, notifier, chat>>

\* a voice backend exits, the one the variable refers to or an earlier one
PyExit ==
    /\ PyAlive(backend) > 0
    /\ \/ /\ backend.py = "alive"
          /\ backend' = [backend EXCEPT !.py = "exited"]
       \/ /\ backend.pyOrphans > 0
          /\ backend' = [backend EXCEPT !.pyOrphans = backend.pyOrphans - 1]
    /\ UNCHANGED <<currentMode, cwd, dirs, files, catalog, req, peer, messages,
                   socket, reportedMode, memo, reader, voice, notifier, chat>>

\* the timeout of the close handler: setTimeout(() => startPythonBackend(), 2000)
CrashTimerFires ==
    /\ backend.crashTimers > 0
    /\ ~backend.quit
    /\ backend' = StartPythonBackend(
                      [backend EXCEPT !.crashTimers = backend.crashTimers - 1],
                      "crash")
    /\ UNCHANGED <<currentMode, cwd, dirs, files, catalog, req, peer, messages,
                   socket, reportedMode, memo, reader, voice, notifier, chat>>

\* the timeout of the stderr handler: if (websocketProcess) { kill, start }
PortTimerFires ==
    /\ backend.portTimers > 0
    /\ ~backend.quit
    /\ LET b == [backend EXCEPT !.portTimers = backend.portTimers - 1]
       IN backend' = IF b.ws # "none"
                     THEN StartPythonBackend(KillWs(b), "port")
                     ELSE b
    /\ UNCHANGED <<currentMode, cwd, dirs, files, catalog, req, peer, messages,
                   socket, reportedMode, memo, reader, voice, notifier, chat>>

\* app.on('window-all-closed'): both processes the variables refer to are
\* killed, and the app quits unless the platform is darwin; the timers of a
\* process that quit never fire
WindowAllClosed(platform) ==
    /\ backend.window
    /\ (platform = "darwin" /\ backend.ws = "alive")
           => StartsAhead(backend) < MaxStarts
    /\ LET b == [backend EXCEPT !.window = FALSE,
                                !.quit = platform # "darwin"]
       IN backend' = KillWs(KillPy(b))
    /\ UNCHANGED <<currentMode, cwd, dirs, files, catalog, req, peer, messages,
                   socket, reportedMode, memo, reader, voice, notifier, chat>>

\* ------------------------------------------------------- the screen reader
\* startScreenReader: a shell that exists is ended, a new one is run and the
\* flags are set
StartScreenReader ==
    /\ ~backend.quit
    /\ reader' = [reader EXCEPT !.shell = "running", !.active = TRUE,
                                !.paused = FALSE]
    /\ UNCHANGED <<currentMode, cwd, dirs, files, catalog, req, peer, messages,
                   socket, reportedMode, memo, backend, voice, notifier, chat>>

\* the callback of PythonShell.run with an error: the script failed
ScreenReaderError ==
    /\ reader.shell = "running"
    /\ reader' = [reader EXCEPT !.shell = "failed", !.active = FALSE]
    /\ UNCHANGED <<currentMode, cwd, dirs, files, catalog, req, peer, messages,
                   socket, reportedMode, memo, backend, voice, notifier, chat>>

\* stopScreenReader: without a shell the flags are reset at once, with one
\* the shell is asked to end and the flags are reset in its callback
StopScreenReader ==
    /\ ~backend.quit
    /\ ~reader.ending
    /\ reader' = IF reader.shell = "none"
                 THEN [reader EXCEPT !.active = FALSE, !.paused = FALSE]
                 ELSE [reader EXCEPT !.ending = TRUE]
    /\ UNCHANGED <<currentMode, cwd, dirs, files, catalog, req, peer, messages,
                   socket, reportedMode, memo, backend, voice, notifier, chat>>

\* the callback of screenReaderPython.end in stopScreenReader
ScreenReaderEnded ==
    /\ reader.ending
    /\ reader' = [reader EXCEPT !.ending = FALSE, !.shell = "none",
                                !.active = FALSE, !.paused = FALSE]
    /\ UNCHANGED <<currentMode, cwd, dirs, files, catalog, req, peer, messages,
                   socket, reportedMode, memo, backend, voice, notifier, chat>>

\* case 'toggle-pause': screenReaderPaused = !screenReaderPaused
TogglePause ==
    /\ ~backend.quit
    /\ reader' = [reader EXCEPT !.paused = ~reader.paused]
    /\ UNCHANGED <<currentMode, cwd, dirs, files, catalog, req, peer, messages,
                   socket, reportedMode, memo, backend, voice, notifier, chat>>

\* case 'status': the reply carries the two flags
ScreenReaderStatus ==
    /\ ~backend.quit
    /\ reader' = [reader EXCEPT !.asked = TRUE, !.is_running = reader.active,
                                !.is_paused = reader.paused]
    /\ UNCHANGED <<currentMode, cwd, dirs, files, catalog, req, peer, messages,
                   socket, reportedMode, memo, backend, voice, notifier, chat>>

\* ------------------------------------------------- the voice controller
\* whether the Web Speech API exists, and whether recognition.start() returns
SpeechSupport == {"supported", "unsupported"}

\* initializeVoiceController: the constructor calls initialize(), which sets
\* isInitialized and recognition only when speech recognition is supported
InitializeVoiceController(support) ==
    /\ voice.controller = "none"
    /\ voice' = [voice EXCEPT !.controller = IF support = "supported"
                                             THEN "initialized"
                                             ELSE "uninitialized"]
    /\ UNCHANGED <<currentMode, cwd, dirs, files, catalog, req, peer, messages,
                   socket, reportedMode, memo, backend, reader, notifier, chat>>

\* toggle_listening of the VoiceController, its isListening afterwards: a
\* controller that is not initialised returns at once, stopListening clears
\* the flag, startListening sets it when recognition.start() returned
toggle_listening(v, outcome) ==
    IF v.controller # "initialized" THEN v.ctlListening
    ELSE IF v.ctlListening THEN FALSE
    ELSE outcome = "ok"

\* toggleListening of the renderer, bound to the microphone button: without
\* a controller it shows an error; otherwise it negates its own flag, calls
\* toggle_listening without using what it returns, and sends the new value
ToggleListening(outcome) ==
    /\ voice.toggles < MaxToggles
    /\ voice' = IF voice.controller = "none"
                THEN [voice EXCEPT !.toggles = voice.toggles + 1]
                ELSE [voice EXCEPT
                         !.toggles = voice.toggles + 1,
                         !.ctlListening = toggle_listening(voice, outcome),
                         !.isListening = ~voice.isListening,
                         !.told = IF socket.state = "open"
                                  THEN (IF voice.isListening THEN "off" ELSE "on")
                                  ELSE voice.told]
    /\ UNCHANGED <<currentMode, cwd, dirs, files, catalog, req, peer, messages,
                   socket, reportedMode, memo, backend, reader, notifier, chat>>

\* ------------------------------------------------------ the notifications
\* processQueue up to its requestAnimationFrame: nothing happens while a
\* notification is being mounted or the queue is empty, otherwise the head
\* of the queue is put into the DOM
processQueue(nf) ==
    IF nf.isProcessingQueue \/ nf.queue = <<>> THEN nf
    ELSE [nf EXCEPT !.isProcessingQueue = TRUE,
                    !.mounting = Head(nf.queue),
                    !.queue = Tail(nf.queue),
                    !.state[Head(nf.queue)] = "mounted"]

\* closeNotification: the frame whose handle progressAnimationId holds is
\* cancelled, whichever notification requested it, and the element is
\* hidden
closeNotification(nf, n) ==
    [nf EXCEPT !.state[n] = "closed",
               !.frame = IF nf.progressAnimationId # 0
                         THEN nf.frame \ {nf.progressAnimationId}
                         ELSE nf.frame,
               !.progressAnimationId = 0]

\* showNotification: the notification is queued and processQueue is called
ShowNotification(n) ==
    /\ notifier.state[n] = "new"
    /\ notifier' = processQueue([notifier EXCEPT !.queue = Append(notifier.queue, n),
                                                 !.state[n] = "queued"])
    /\ UNCHANGED <<currentMode, cwd, dirs, files, catalog, req, peer, messages,
                   socket, reportedMode, memo, backend, reader, voice, chat>>

\* the frame processQueue requested: the notification is shown, the first
\* updateProgress frame is requested and its handle kept, and the queue is
\* processed further
ShowFrame ==
    /\ notifier.mounting # 0
    /\ LET n == notifier.mounting
       IN notifier' = processQueue(
              [notifier EXCEPT !.state[n] = "open",
                               !.frame = notifier.frame \cup {n},
                               !.progressAnimationId = n,
                               !.mounting = 0,
                               !.isProcessingQueue = FALSE])
    /\ UNCHANGED <<currentMode, cwd, dirs, files, catalog, req, peer, messages,
                   socket, reportedMode, memo, backend, reader, voice, chat>>

\* the duration of a notification has passed since it was shown
DurationElapsed(n) ==
    /\ notifier.state[n] \in {"open", "closed"}
    /\ n \notin notifier.elapsed
    /\ notifier' = [notifier EXCEPT !.elapsed = notifier.elapsed \cup {n}]
    /\ UNCHANGED <<currentMode, cwd, dirs, files, catalog, req, peer, messages,
                   socket, reportedMode, memo, backend, reader, voice, chat>>

\* updateProgress of notification n runs in its frame: when nothing remains
\* of the duration the notification is closed, otherwise the next frame is
\* requested and its handle kept
UpdateProgress(n) ==
    /\ n \in notifier.frame
    /\ LET ran == [notifier EXCEPT !.frame = notifier.frame \ {n}]
       IN notifier' = IF n \in notifier.elapsed
                      THEN closeNotification(ran, n)
                      ELSE [ran EXCEPT !.frame = ran.frame \cup {n},
                                       !.progressAnimationId = n]
    /\ UNCHANGED <<currentMode, cwd, dirs, files, catalog, req, peer, messages,
                   socket, reportedMode, memo, backend, reader, voice, chat>>

\* the mouse enters a notification on screen: the frame whose handle
\* progressAnimationId holds is cancelled.  The mouseleave listener throws
\* before it requests a frame (it assigns to the constant endTime and reads
\* progress outside its scope), so it changes nothing
MouseEnter(n) ==
    /\ notifier.state[n] = "open"
    /\ notifier.progressAnimationId # 0
    /\ notifier' = [notifier EXCEPT
                        !.frame = notifier.frame \ {notifier.progressAnimationId},
                        !.progressAnimationId = 0]
    /\ UNCHANGED <<currentMode, cwd, dirs, files, catalog, req, peer, messages,
                   socket, reportedMode, memo, backend, reader, voice, chat>>

\* a click on the close button of a notification on screen
CloseClick(n) ==
    /\ notifier.state[n] = "open"
    /\ notifier' = closeNotification(notifier, n)
    /\ UNCHANGED <<currentMode, cwd, dirs, files, catalog, req, peer, messages,
                   socket, reportedMode, memo, backend, reader, voice, chat>>

\* ------------------------------------------------------- the chat screen
\* how sendMessage is called: the Send button, disabled while isLoading, or
\* the Enter key of the textarea, which is never disabled
SubmitWays == {"button", "enter"}

\* sendMessage up to its await: setIsLoading(true) and the fetch
SubmitMessage(way) ==
    /\ way = "button" => ~chat.isLoading
    /\ chat.inFlight < MaxInFlight
    /\ chat' = [chat EXCEPT !.isLoading = TRUE, !.inFlight = chat.inFlight + 1]
    /\ UNCHANGED <<currentMode, cwd, dirs, files, catalog, req, peer, messages,
                   socket, reportedMode, memo, backend, reader, voice, notifier>>

\* sendMessage after its await: the reply is appended, or the error in the
\* catch block, and the finally block calls setIsLoading(false)
ReplyArrives(outcome) ==
    /\ chat.inFlight > 0
    /\ chat' = [chat EXCEPT !.isLoading = FALSE, !.inFlight = chat.inFlight - 1,
                            !.appended = IF outcome = "ok" THEN "reply"
                                         ELSE "error"]
    /\ UNCHANGED <<currentMode, cwd, dirs, files, catalog, req, peer, messages,
                   socket, reportedMode, memo, backend, reader, voice, notifier>>

\* ------------------------------------------------------ POST /api/ai/chat
\* what the messages member of a JSON body can be: missing, null, an array,
\* a string, a number or an object; items are the elements of an array
MessagesKinds == {"undefined", "null", "array", "string", "number", "object"}

ChatBodies ==
    [kind : MessagesKinds \ {"array"}, items : {<<>>}]
        \cup [kind : {"array"}, items : {<<>>, <<"hi">>, <<"hi", "reply">>}]

\* messages[messages.length - 1]?.content throws a TypeError when messages
\* is undefined or null; of every other value it reads a property
LastMessageThrows(kind) == kind \in {"undefined", "null"}

\* !Array.isArray(req.body.messages) || req.body.messages.length === 0
InvalidFormat(kind, items) == kind # "array" \/ items = <<>>

\* a client posts a body to /api/ai/chat.  The handler reads the last
\* message first: a TypeError there goes to the outer catch, which answers
\* 500; then it validates the body and answers 400; otherwise it sends the
\* formatted messages to the LLM server
PostChat(body) ==
    /\ chat.post.phase = "idle"
    /\ chat' = [chat EXCEPT !.post =
           IF LastMessageThrows(body.kind)
           THEN [IdlePost EXCEPT !.phase = "done", !.kind = body.kind,
                                 !.items = body.items, !.status = 500,
                                 !.error = "Failed to process AI chat request"]
           ELSE IF InvalidFormat(body.kind, body.items)
           THEN [IdlePost EXCEPT !.phase = "done", !.kind = body.kind,
                                 !.items = body.items, !.status = 400,
                                 !.error = "Invalid request format"]
           ELSE [IdlePost EXCEPT !.phase = "llm", !.kind = body.kind,
                                 !.items = body.items, !.llmCalls = 1]]
    /\ UNCHANGED <<currentMode, cwd, dirs, files, catalog, req, peer, messages,
                   socket, reportedMode, memo, backend, reader, voice, notifier>>

\* the LLM server answers or fails: 200 with the content, or 500
LlmAnswers(outcome) ==
    /\ chat.post.phase = "llm"
    /\ chat' = [chat EXCEPT !.post.phase = "done",
                            !.post.status = IF outcome = "ok" THEN 200 ELSE 500]
    /\ UNCHANGED <<currentMode, cwd, dirs, files, catalog, req, peer, messages,
                   socket, reportedMode, memo, backend, reader, voice, notifier>>

\* the client has its answer
PostSettled ==
    /\ chat.post.phase = "done"
    /\ chat' = [chat EXCEPT !.post = IdlePost]
    /\ UNCHANGED <<currentMode, cwd, dirs, files, catalog, req, peer, messages,
                   socket, reportedMode, memo, backend, reader, voice, notifier>>

\* the Python processes of the Electron main process
NextBackend ==
    \/ CreateWindow
    \/ \E code \in ExitCodes \ {"null"} : WsExit(code)
    \/ \E code \in ExitCodes \ {"null"} : WsOrphanExit(code)
    \/ WsAddressInUse
    \/ PyExit
    \/ CrashTimerFires
    \/ PortTimerFires
    \/ \E platform \in MainPlatforms : WindowAllClosed(platform)

\* the Electron main process: the Python processes and the screen reader
NextMain ==
    \/ NextBackend
    \/ StartScreenReader
    \/ ScreenReaderError
    \/ StopScreenReader
    \/ ScreenReaderEnded
    \/ TogglePause
    \/ ScreenReaderStatus

SpecMain == Init /\ [][NextMain]_vars

\* the timeout of a restart fires when its two seconds have passed
SpecMainLive == Init /\ [][NextBackend]_vars /\ WF_vars(CrashTimerFires)

\* the renderer's microphone button, the voice controller and the socket
NextVoice ==
    \/ \E support \in SpeechSupport : InitializeVoiceController(support)
    \/ \E outcome \in Outcomes : ToggleListening(outcome)
    \/ SocketOpen
    \/ SocketClose
    \/ ReconnectTimer

SpecVoice == Init /\ [][NextVoice]_vars

\* the notification manager
NextNotifier ==
    \/ \E n \in NoteIds : ShowNotification(n)
    \/ ShowFrame
    \/ \E n \in NoteIds : DurationElapsed(n)
    \/ \E n \in NoteIds : UpdateProgress(n)
    \/ \E n \in NoteIds : MouseEnter(n)
    \/ \E n \in NoteIds : CloseClick(n)

SpecNotifier == Init /\ [][NextNotifier]_vars

\* the browser runs every requested frame that is not cancelled, and time
\* passes
SpecNotifierLive ==
    /\ SpecNotifier
    /\ WF_vars(ShowFrame)
    /\ \A n \in NoteIds : WF_vars(UpdateProgress(n))
    /\ \A n \in NoteIds : WF_vars(DurationElapsed(n))

\* the chat screen and the clients of /api/ai/chat
NextChat ==
    \/ \E way \in SubmitWays : SubmitMessage(way)
    \/ \E outcome \in Outcomes : ReplyArrives(outcome)
    \/ \E body \in ChatBodies : PostChat(body)
    \/ \E outcome \in Outcomes : LlmAnswers(outcome)
    \/ PostSettled

SpecChat == Init /\ [][NextChat]_vars

\* ------------------------------------------------------------ specifications
\* the server with the UI as its only client: T is typed into the PC Control
\* screen, U is recognised speech, V is typed into the chat screen
NextOver(T, U, V) ==
    \/ \E newMode \in Modes : SetMode(newMode)
    \/ \E text \in T : ExecuteCommand(text)
    \/ \E text \in V : SendMessage(text)
    \/ \E text \in U : HandleSpeechRecognized(text)
    \/ \E command \in QuickCommands : SendCommand(command)
    \/ ServerMatch
    \/ HandlerDone
    \/ AiDone
    \/ RequestSettled

Next == NextOver(Texts, Corpus, ChatTexts)

Spec == Init /\ [][Next]_vars

\* keeps one answered request to compare later ones with
Remember ==
    /\ req.phase = "done"
    /\ memo.phase = "idle"
    /\ memo' = req
    /\ UNCHANGED <<currentMode, cwd, dirs, files, catalog, req, peer, messages, socket, reportedMode, sideVars>>

NextDet == NextOver(DetTexts, DetTexts, DetChatTexts) \/ Remember

SpecDet == Init /\ [][NextDet]_vars

\* the server with the PC Control screen and another client at once
NextClients ==
    \/ \E newMode \in Modes : SetMode(newMode)
    \/ \E text \in ClientTexts : ExecuteCommand(text)
    \/ ServerMatch
    \/ HandlerDone
    \/ AiDone
    \/ RequestSettled
    \/ \E text \in PeerBodies : PeerPost(text)
    \/ PeerMatch
    \/ PeerHandlerDone
    \/ PeerAiDone
    \/ PeerSettled

SpecClients == Init /\ [][NextClients]_vars

\* the renderer with its socket
NextRenderer ==
    \/ \E newMode \in Modes : SetMode(newMode)
    \/ \E text \in Corpus : HandleSpeechRecognized(text)
    \/ RequestSettled
    \/ SocketOpen
    \/ SocketClose
    \/ ReconnectTimer

SpecRenderer == Init /\ [][NextRenderer]_vars

\* ------------------------------------------------------------------ claims
\* the category of the Intent an entry of the catalog stands for
Category(name) ==
    CASE name = "create folder" -> "folder_create"
      [] name = "create file" -> "file_create"
      [] name = "list files" -> "file_list"
      [] name = "execute" -> "shell_execute"
      [] name = "navigate" -> "navigate"
      [] name = "open" -> "launch_app"
      [] name = "none" -> "ai_chat"
      [] OTHER -> "unknown"

Categories ==
    {"launch_app", "close_app", "file_create", "folder_create", "file_list",
     "navigate", "shell_execute", "system_volume", "system_power",
     "media_control", "window_control", "web_search", "web_open",
     "screenshot", "ai_chat"}

Confidence(name) == IF name = "none" THEN "fallback" ELSE "exact"

\* the request went through the matching of the command endpoint
Interpreted(r) ==
    r.endpoint = "command" /\ r.phase \in {"handler", "ai", "done"} /\ r.text # <<>>

\* the command endpoint answered the request
Answered(r) == Interpreted(r) /\ r.phase = "done"

SomeEntryMatches(text) ==
    \E i \in 1..Len(CommandNames) : PatternMatch(CommandNames[i], text).ok

\* C1 as stated: every interpretation of a non-empty text ends with a
\* category of the closed set and without an error outcome.
C1_NoErrorOutcome ==
    Answered(req) =>
        /\ Category(req.name) \in Categories
        /\ req.success
        /\ req.status = 200

\* C1 amended: every interpretation of a non-empty text selects a category
\* of the closed set and is answered either with success (200) or with an
\* error (500, success false); the error is that of the selected handler
\* when an entry matched and that of the AI call when none matched.
C1_TotalWithErrorResponse ==
    /\ Interpreted(req) => Category(req.name) \in Categories
    /\ Answered(req) =>
          \/ req.success /\ req.status = 200 /\ req.failed = "none"
          \/ /\ ~req.success
             /\ req.status = 500
             /\ req.output = "error"
             /\ req.failed = (IF req.name = "none" THEN "ai" ELSE "handler")

\* a matched command whose handler failed was answered with an error
C1_Witness ==
    Answered(req) /\ req.name = "navigate" /\ ~req.success /\ req.status = 500

\* what an answered request returned: category, parameters (the slot, the
\* content and the path of the response), confidence
Returned(r) ==
    [category |-> Category(r.name),
     parameters |-> <<r.slot, r.content, r.respPath>>,
     confidence |-> Confidence(r.name)]

\* what the matching alone selected
Selected(r) ==
    [category |-> Category(r.name),
     parameters |-> <<r.slot, r.content>>,
     confidence |-> Confidence(r.name)]

SameInput(a, b) == a.text = b.text /\ a.mode = b.mode

SlottedEntries == {"create folder", "create file", "execute", "navigate", "open"}

\* C3: no entry with a slot is selected with a slot value that is empty
\* after trimming; such a text is not matched.
C3_NoEmptySlot ==
    (Interpreted(req) /\ req.name \in SlottedEntries) => req.slot # <<>>

C5_FallbackToAi ==
    (Answered(req) /\ ~SomeEntryMatches(req.text)) =>
        /\ Category(req.name) = "ai_chat"
        /\ Confidence(req.name) = "fallback"
        /\ req.handlersRun = 0
        /\ req.effect = "none"
        /\ req.aiCalls = 1
        /\ req.aiContent = req.text

\* a text without match was answered by the AI
C5_Witness ==
    Answered(req) /\ ~SomeEntryMatches(req.text) /\ req.output = "ai"

C7_ExactlyOneOutcome ==
    Answered(req) =>
        /\ req.handlersRun + req.aiCalls = 1
        /\ req.handlersRun = 1 <=> req.name # "none"

\* a handler ran and the AI was not called
C7_Witness ==
    Answered(req) /\ req.handlersRun = 1 /\ req.aiCalls = 0 /\ req.success

\* whitespace runs replaced by one space
RECURSIVE Collapse(_)
Collapse(s) ==
    IF s = <<>> THEN <<>>
    ELSE IF s[1] \in WhiteSpace
         THEN IF Len(s) >= 2 /\ s[2] \in WhiteSpace
              THEN Collapse(Tail(s))
              ELSE <<" ">> \o Collapse(Tail(s))
         ELSE <<s[1]>> \o Collapse(Tail(s))

\* trimmed, whitespace-collapsed, lowercased
Normalize(text) == LowerSeq(Collapse(Trim(text)))

\* C8: the category of a text is the category of its trimmed,
\* whitespace-collapsed, lowercased copy.
C8_MatchesNormalized ==
    Interpreted(req) =>
        Category(req.name) = Category(FirstMatch(Normalize(req.text)))

\* the entries whose template is a fixed prefix followed by one slot
PrefixSlotEntries == {"create folder", "execute", "navigate", "open"}

\* C9: the slot value is the text after the template's prefix, trimmed and
\* otherwise unchanged.
C9_SlotVerbatim ==
    (Interpreted(req) /\ req.name \in PrefixSlotEntries) =>
        req.slot = Trim(SubSeq(req.text, 2, Len(req.text)))

\* the free-form requests among the examples of the PC Control screen
FreeFormExamples ==
    {t \in AdvertisedExamples : t[1] \in {"write", "explain"}}

\* C10: the free-form requests the PC Control screen advertises go to the
\* AI chat and cause no OS action.
C10_FreeFormToAi ==
    (Answered(req) /\ req.text \in FreeFormExamples) =>
        /\ req.name = "none"
        /\ req.handlersRun = 0
        /\ req.effect = "none"

\* what every response of a successful handler that ran alone satisfies: the
\* directory did not change between the handler's path.resolve and the
\* response's process.cwd(), except by the handler's own chdir
AsIfAlone(r) ==
    /\ r.name \in {"create folder", "create file"} =>
           r.respPath = Resolve(r.respCwd, r.slot)
    /\ r.name = "navigate" => r.respPath = r.respCwd

\* C11: requests handled concurrently are each answered as if they had run
\* alone: under every interleaving the response of a successful request
\* has the path and the cwd it has when no other request is in flight.
C11_ConcurrentAsAlone ==
    \A r \in {req, peer} : (Answered(r) /\ r.success) => AsIfAlone(r)

\* the command endpoint is between the arrival of a request and its answer
Interpreting == req.endpoint = "command" /\ req.phase \in {"posted", "handler"}

C13_FailureReported ==
    (/\ Answered(req)
     /\ req.name \in SlottedEntries
     /\ (req.failed = "handler" \/ req.slot = <<>>))
    => (~req.success /\ req.status = 500 /\ req.output = "error")

\* the ends of the paths that lead from the UI to command matching: the
\* command endpoint, process_text of the WebSocket and the IPC command
CommandPaths == {"command", "process_text", "ipc"}

RoutedToAi(r) == r.aiCalls >= 1 /\ r.phase \in {"ai", "done"}

\* msgs ends with the user's text and holds the text of the earlier turn
\* before it
HoldsTurnBefore(msgs, earlier, text) ==
    /\ msgs # <<>>
    /\ msgs[Len(msgs)] = [role |-> "user", content |-> text]
    /\ \E i \in 1..(Len(msgs) - 1) : msgs[i] = [role |-> "user", content |-> earlier]

\* the chat screen sends its messages, the user's text last
ChatSendsAll ==
    (RoutedToAi(req) /\ req.endpoint = "chat" /\ req.phase = "ai" /\ messages # <<>>)
    => (/\ req.aiMessages = messages
        /\ messages[Len(messages)] = [role |-> "user", content |-> req.typed])

\* /api/ai/chat sends on the messages it was sent, in their order
LlmGetsAll ==
    (RoutedToAi(req) /\ req.phase = "done")
    => SubSeq(req.llmMessages, 2, Len(req.llmMessages)) = req.aiMessages

\* the fallback of the command endpoint sends an earlier command of the PC
\* Control screen before the user's text
FallbackSendsEarlier ==
    (RoutedToAi(req) /\ req.endpoint = "command"
        /\ Answered(memo) /\ memo.mode = req.mode /\ memo # req)
    => HoldsTurnBefore(req.aiMessages, memo.typed, req.typed)

\* C15: whenever text is routed to the AI chat, the messages of the request
\* end with the user's text and hold the earlier turns of the conversation
\* before it, in their order: those of the chat screen when the chat screen
\* sends, and the earlier commands of the PC Control screen when the
\* command endpoint falls back; the LLM server is sent these messages.
C15_PriorTurnsSent == ChatSendsAll /\ LlmGetsAll /\ FallbackSendsEarlier

\* the entries whose template is a literal phrase, with their phrase
LiteralEntries == {"list files"}

\* the text holds the phrase somewhere
Contains(text, phrase) == \E i \in 1..Len(text) : text[i] = phrase

\* C16: the matcher of a literal entry succeeds whenever the normalized
\* text contains its phrase anywhere: a text with words before 'list files'
\* is matched by the 'list files' entry and is not sent to the AI chat.
C16_LiteralAnywhere ==
    \A name \in LiteralEntries :
        (Interpreted(req) /\ Contains(Normalize(req.text), name))
        => (PatternMatch(name, req.text).ok /\ req.name # "none")

Responded(r) == r.endpoint = "command" /\ r.phase = "done"

\* C18: every response of POST /api/command/execute carries a boolean
\* success and an output text: that of a command that ran, of one that
\* failed, of the AI fallback and of a request rejected as without command.
C18_SuccessAndOutput ==
    \A r \in {req, peer} :
        Responded(r) =>
            /\ r.success \in BOOLEAN
            /\ r.status \in {200, 400, 500}
            /\ r.output \notin {"absent", "none"}

\* C19: the catalog is never mutated at runtime: whatever requests were
\* answered and whatever handlers ran, it holds the entries it was declared
\* with, in their declared order.
C19_CatalogImmutable == catalog = CommandNames

\* a handler of the catalog has run and changed the file system
C19_Witness ==
    /\ Answered(req)
    /\ req.name = "create folder"
    /\ req.success
    /\ dirs # InitDirs
    /\ Len(catalog) = 6

\* C20: whenever the WebSocket is open, the mode last reported to the
\* backend with set_operation_mode is the mode the UI shows, whether
\* setMode ran at startup, while the socket was connecting or closed, or
\* while it was open.
C20_ModeReported == socket.state = "open" => reportedMode = currentMode

\* C21: at any time at most one WebSocket server process and at most one
\* voice backend process that the app started are alive
C21_AtMostOneEach == WsAlive(backend) <= 1 /\ PyAlive(backend) <= 1

\* C27: every exit of the WebSocket server with a non-zero code, while the
\* app runs, is eventually followed by the start of a new server process
\* (or by the end of the app)
C27_CrashRestarted ==
    \A n \in 0..MaxStarts :
        (backend.lastExit = "1" /\ backend.starts = n /\ ~backend.quit)
            ~> (backend.starts > n \/ backend.quit)

\* the timeout of a crash has started the backend again
C27_Witness == backend.lastStartBy = "crash" /\ backend.ws = "alive"

\* C28: every status reply of the screen reader with is_paused = true has
\* is_running = true
C28_PausedOnlyRunning == (reader.asked /\ reader.is_paused) => reader.is_running

\* C22: at most 5 reconnection attempts are made without an open between
\* them; when the fifth has failed the 'Connection lost' error is shown and
\* no attempt is scheduled; an open restores the budget of 5
C22_AtMostFiveAttempts ==
    /\ socket.made <= 5
    /\ (socket.state = "closed" /\ socket.made = 5)
           => (socket.lost /\ ~socket.timer)
    /\ socket.lost => (socket.made = 5 /\ socket.state = "closed")
    /\ socket.state = "open" => (socket.made = 0 /\ socket.attempts = 0)
    /\ (socket.state = "closed" /\ socket.made < 5) => socket.timer

\* the fifth attempt has failed
C22_Witness == socket.lost /\ socket.made = 5

\* the delays of the claim, in the order of the attempts
BackoffDelays == <<1000, 2000, 4000, 8000, 16000>>

\* C29: the delay before the k-th reconnection attempt in a row is
\* min(1000 * 2^(k-1), 30000) ms: 1000, 2000, 4000, 8000, 16000; between two
\* opens the delays never decrease and never exceed 30000
C29_ExponentialBackoff ==
    /\ [](socket.timer => /\ socket.made + 1 \in 1..5
                          /\ socket.delay = BackoffDelays[socket.made + 1]
                          /\ socket.delay <= 30000)
    /\ [][socket'.state # "open" => socket'.delay >= socket.delay]_vars

\* the timeout before the fifth attempt is set
C29_Witness == socket.timer /\ socket.made = 4 /\ socket.delay = 16000

\* C23: after every completed toggleListening call the renderer's
\* isListening equals the VoiceController's isListening
C23_FlagsAgree ==
    voice.toggles > 0 => voice.isListening = voice.ctlListening

\* C24: every notification on screen whose duration has elapsed is
\* eventually closed, also while other notifications are shown and closed
C24_AutoClosed ==
    \A n \in NoteIds :
        (notifier.state[n] = "open" /\ n \in notifier.elapsed)
            ~> (notifier.state[n] = "closed")

\* C25: isLoading of the chat screen is true exactly while at least one chat
\* request is in flight
C25_LoadingWhileInFlight == chat.isLoading <=> chat.inFlight > 0

\* C26: a POST /api/ai/chat whose body has no messages array, or an empty
\* one, is answered with 400 and 'Invalid request format', and nothing is
\* sent to the LLM server
C26_InvalidBodyIs400 ==
    (chat.post.phase = "done" /\ InvalidFormat(chat.post.kind, chat.post.items))
        => /\ chat.post.status = 400
           /\ chat.post.error = "Invalid request format"
           /\ chat.post.llmCalls = 0
====
